---- MODULE Spec2Model ----
(***************************************************************************)
(* Website graph analyzer: the breadth-first crawl of                      *)
(* website_graph.build_website_graph, the classifier classify_graph, the   *)
(* aggregator graph_stats and the submit handler of app.py that calls      *)
(* them in sequence.                                                       *)
(*                                                                         *)
(* A URL string  scheme://netloc/path////#fragment  is the record          *)
(* [scheme, netloc, path, slashes, fragment]: path carries no trailing     *)
(* slash, slashes counts the trailing slashes, fragment is the text after  *)
(* '#'.  urlparse is field selection on that record.                       *)
(***************************************************************************)
EXTENDS Integers, Sequences, FiniteSets, TLC

\* ------------------------------------------------------------------ bounds
MaxPagesBound == 3      \* max_pages ranges over 1..MaxPagesBound
MaxDepthBound == 2      \* max_depth ranges over 0..MaxDepthBound
MaxSlashes == 2         \* a URL given to normalize_url ends in 0..MaxSlashes slashes

\* ------------------------------------------------------------------- URLs
URL(s, n, p) == [scheme |-> s, netloc |-> n, path |-> p, slashes |-> 0, fragment |-> ""]

EmptyHref == URL("", "", "")

A == URL("https", "site.test", "/a")
B == URL("https", "site.test", "/b")
C == URL("https", "site.test", "/c")
D == URL("https", "site.test", "/d")
X == URL("https", "other.test", "/x")
F == URL("ftp", "site.test", "/f")
M == URL("mailto", "", "bob@site.test")

ASlash == [A EXCEPT !.slashes = 1]
BSlash == [B EXCEPT !.slashes = 2]
BFrag  == [B EXCEPT !.fragment = "top"]
RelC   == URL("", "", "/c")

\* The seeds a caller may pass, and the href lists a fetched page may hold.
Seeds == {A, ASlash, F}

LinkChoices ==
    { <<>>, <<B>>, <<B, BSlash>>, <<B, RelC>>, <<A, BFrag>>, <<C>>, <<D>>,
      <<X, B>>, <<M, F, D>>, <<D, A>>, <<B, RelC, D>> }

Range(s) == {s[i] : i \in 1..Len(s)}

\* ------------------------------------------------------- website_graph.py
is_valid_scheme(url) == url.scheme \in {"http", "https"}

\* urljoin(base, link): an empty reference is the base itself, a reference
\* with a scheme is itself, an absolute-path reference takes the base's
\* scheme and netloc.
urljoin(base, link) ==
    IF link = EmptyHref THEN base
    ELSE IF link.scheme # "" THEN link
    ELSE [link EXCEPT !.scheme = base.scheme, !.netloc = base.netloc]

\* (variant) one trailing slash is removed
rstrip_one_slash(u) ==
    IF u.fragment = "" /\ u.slashes > 0 THEN [u EXCEPT !.slashes = @ - 1] ELSE u

\* str.rstrip('/'): every trailing slash of the string goes; with a fragment
\* the string ends in the fragment and the slashes before '#' stay.
rstrip_slash(u) == IF u.fragment = "" THEN [u EXCEPT !.slashes = 0] ELSE u

\* link.split('#')[0]
split_fragment(link) ==
    IF link.scheme = "" /\ link.netloc = "" /\ link.path = "" /\ link.slashes = 0
    THEN EmptyHref
    ELSE [link EXCEPT !.fragment = ""]

normalize_url(base, link) == rstrip_slash(urljoin(base, split_fragment(link)))

\* What requests.get + BeautifulSoup deliver for one URL.
Failure == [ok |-> FALSE, hrefs |-> <<>>]
Page(hrefs) == [ok |-> TRUE, hrefs |-> hrefs]

RECURSIVE hrefs_to_links(_, _)
hrefs_to_links(url, hrefs) ==
    IF hrefs = <<>> THEN <<>>
    ELSE LET href == Head(hrefs)
             rest == hrefs_to_links(url, Tail(hrefs))
         IN IF href.scheme \in {"mailto", "javascript", "tel"}
            THEN rest
            ELSE <<normalize_url(url, href)>> \o rest

extract_links(url, answer) ==
    IF ~answer.ok THEN <<>> ELSE hrefs_to_links(url, answer.hrefs)

\* ------------------------------------------------------- networkx.DiGraph
\* (variant) a page becomes a node only through its edges
add_node_by_edge_only(G, u) == G

add_node(G, u) == [G EXCEPT !.nodes = @ \cup {u}]
add_edge(G, u, v) == [G EXCEPT !.nodes = @ \cup {u, v}, !.edges = @ \cup {<<u, v>>}]

Successors(E, S) == {e[2] : e \in {d \in E : d[1] \in S}}

RECURSIVE Reachable(_, _)
Reachable(E, S) ==
    LET T == S \cup Successors(E, S) IN IF T = S THEN S ELSE Reachable(E, T)

Undirected(E) == E \cup {<<e[2], e[1]>> : e \in E}

Returned(v) == [raised |-> "none", value |-> v]
Raised(x) == [raised |-> x, value |-> FALSE]

\* nx.is_strongly_connected / nx.is_weakly_connected: both raise
\* NetworkXPointlessConcept on the null graph.
is_strongly_connected(N, E) ==
    IF N = {} THEN Raised("NetworkXPointlessConcept")
    ELSE Returned(\A u \in N : Reachable(E, {u}) = N)

is_weakly_connected(N, E) ==
    IF N = {} THEN Raised("NetworkXPointlessConcept")
    ELSE Returned(\A u \in N : Reachable(Undirected(E), {u}) = N)

\* The except clause of classify_graph catches nx.NetworkXError only;
\* NetworkXPointlessConcept derives from NetworkXException, not from it.
Caught(x) == x = "NetworkXError"

classify_graph(N, E) ==
    LET strong == is_strongly_connected(N, E)
        weak == is_weakly_connected(N, E)
    IN  IF strong.raised # "none"
        THEN IF Caught(strong.raised)
             THEN [raised |-> "none", value |-> "Directed Graph (connectivity not determined)"]
             ELSE [raised |-> strong.raised, value |-> ""]
        ELSE IF strong.value
        THEN [raised |-> "none", value |-> "Strongly Connected Directed Graph"]
        ELSE IF weak.raised # "none"
        THEN IF Caught(weak.raised)
             THEN [raised |-> "none", value |-> "Directed Graph (connectivity not determined)"]
             ELSE [raised |-> weak.raised, value |-> ""]
        ELSE IF weak.value
        THEN [raised |-> "none", value |-> "Weakly Connected Directed Graph"]
        ELSE [raised |-> "none", value |-> "Disconnected Directed Graph"]

degree(E, n) == Cardinality({e \in E : e[1] = n}) + Cardinality({e \in E : e[2] = n})

RECURSIVE sum_degrees(_, _)
sum_degrees(N, E) ==
    IF N = {} THEN 0
    ELSE LET n == CHOOSE x \in N : TRUE IN degree(E, n) + sum_degrees(N \ {n}, E)

\* A quotient p / q is the pair <<p, q>>; the literal 0 is <<0, 1>>.
NoStats ==
    [outcome |-> "none", classification |-> "", nodes |-> 0, edges |-> 0,
     average_degree |-> <<0, 1>>]

graph_stats(N, E) ==
    LET n == Cardinality(N)
        m == Cardinality(E)
        avg_deg == IF n # 0 THEN <<sum_degrees(N, E), n>> ELSE <<0, 1>>
        classification == classify_graph(N, E)
    IN  IF classification.raised # "none"
        THEN [NoStats EXCEPT !.outcome = classification.raised]
        ELSE [outcome |-> "ok", classification |-> classification.value,
              nodes |-> n, edges |-> m, average_degree |-> avg_deg]

\* ------------------------------------------------------------------ state
VARIABLES
    start_url,      \* the seed after line 64
    domain,         \* its netloc
    max_pages, max_depth, same_domain,
    G,              \* the DiGraph: [nodes, edges]
    seen, q, pages_crawled,
    pc,             \* "running", "returned", "stats", "failed", "warned", "rendered"
    stats,          \* what graph_stats gave the caller
    web,            \* the answers fetch has given so far, by URL
    robots,         \* the answers robots has given so far, by URL
    robots_calls,   \* history: calls of allowed_by_robots
    fetched,        \* history: the entries extract_links was called for
    enqueued,       \* history: the entries put in q, the seed first
    dequeued,       \* history: the entries taken from q
    waits,          \* history: calls of time.sleep(delay)
    run, first,     \* which crawl of the same site this is; the first one's result
    norm,           \* normalize_url applied on its own: input, results, position
    pool            \* the worker-pool crawler of web_diver.py

vars ==
    <<start_url, domain, max_pages, max_depth, same_domain, G, seen, q,
      pages_crawled, pc, stats, web, robots, robots_calls, fetched, enqueued,
      dequeued, waits, run, first, norm, pool>>

config == <<start_url, domain, max_pages, max_depth, same_domain>>
history == <<robots_calls, fetched, enqueued, dequeued, waits>>
aside == <<norm, pool>>

NoNorm == [pc |-> "off", mode |-> "", base |-> EmptyHref, u |-> EmptyHref,
           once |-> EmptyHref, twice |-> EmptyHref]
NoPool == [status |-> "off", visited |-> {}, graph |-> {}, stack |-> <<>>,
           futures |-> <<>>]

EmptyGraph == [nodes |-> {}, edges |-> {}]
NoResult == [G |-> EmptyGraph, stats |-> NoStats]

\* Lines 64-71 of build_website_graph.
Init ==
    /\ \E seed \in Seeds : start_url = normalize_url(seed, EmptyHref)
    /\ domain = start_url.netloc
    /\ max_pages \in 1..MaxPagesBound
    /\ max_depth \in 0..MaxDepthBound
    /\ same_domain \in BOOLEAN
    /\ G = EmptyGraph
    /\ seen = {start_url}
    /\ q = << <<start_url, 0>> >>
    /\ pages_crawled = 0
    /\ pc = "running"
    /\ stats = NoStats
    /\ web = <<>>
    /\ robots = <<>>
    /\ robots_calls = 0
    /\ fetched = <<>>
    /\ enqueued = << <<start_url, 0>> >>
    /\ dequeued = <<>>
    /\ waits = 0
    /\ run = 1
    /\ first = NoResult
    /\ norm = NoNorm
    /\ pool = NoPool

\* ------------------------------------------------------- the crawl loop
\* (variant) the loop runs one page short of the budget
LoopCondOffByOne == q # <<>> /\ pages_crawled + 1 < max_pages

\* (variant) the loop runs until the queue is empty
LoopCondQueueOnly == q # <<>>

\* line 73: while q and pages_crawled < max_pages
LoopCond == q # <<>> /\ pages_crawled < max_pages

\* (variant) no domain filter
OffDomainNever(link) == FALSE

\* line 90: same_domain and urlparse(link).netloc != domain
OffDomain(link) == same_domain /\ link.netloc # domain

\* (variant) the depth of the new entry is not checked
MayEnqueueAnyDepth(link, sn, depth, pages) == link \notin sn /\ pages < max_pages

\* (variant) the seen set is not consulted
MayEnqueueSeenToo(link, sn, depth, pages) ==
    depth + 1 <= max_depth /\ pages < max_pages

\* line 93: link not in seen and depth + 1 <= max_depth and pages_crawled < max_pages
MayEnqueue(link, sn, depth, pages) ==
    link \notin sn /\ depth + 1 <= max_depth /\ pages < max_pages

\* (variant) q.pop(): the entry inserted last
pop_right(queue) ==
    [item |-> queue[Len(queue)], rest |-> SubSeq(queue, 1, Len(queue) - 1)]

\* (variant) q[0]: the entry is read and stays in the queue
peek_left(queue) == [item |-> Head(queue), rest |-> queue]

\* line 74: q.popleft()
popleft(queue) == [item |-> Head(queue), rest |-> Tail(queue)]

\* (variant) the new entry takes its parent's depth
child_depth_same(depth) == depth

\* line 95: depth + 1
child_depth(depth) == depth + 1

\* (variant) the pause is left out
sleep_skipped(w) == w

\* line 96: time.sleep(delay), counted
sleep(w) == w + 1

\* (variant) the links are iterated as a set, in hash order
IterLinksAnyOrder(links) ==
    {[i \in 1..Len(links) |-> links[f[i]]] : f \in Permutations(1..Len(links))}

\* line 87: for link in links -- the list, in document order
IterLinks(links) == {links}

\* (variant) a link becomes an edge only when its target is enqueued
RECURSIVE for_links_edge_if_enqueued(_, _, _, _, _)
for_links_edge_if_enqueued(links, url, depth, pages, st) ==
    IF links = <<>> THEN st
    ELSE LET link == Head(links)
             after ==
                 IF ~is_valid_scheme(link) THEN st
                 ELSE IF OffDomain(link) THEN st
                 ELSE IF MayEnqueue(link, st.seen, depth, pages)
                 THEN [st EXCEPT !.G = add_edge(@, url, link),
                                 !.seen = @ \cup {link},
                                 !.q = Append(@, <<link, child_depth(depth)>>),
                                 !.enqueued = Append(@, <<link, child_depth(depth)>>)]
                 ELSE st
         IN for_links_edge_if_enqueued(Tail(links), url, depth, pages, after)

\* lines 87-95, on st = [G, seen, q, enqueued]
RECURSIVE for_links(_, _, _, _, _)
for_links(links, url, depth, pages, st) ==
    IF links = <<>> THEN st
    ELSE LET link == Head(links)
             added == [st EXCEPT !.G = add_edge(@, url, link)]
             after ==
                 IF ~is_valid_scheme(link) THEN st
                 ELSE IF OffDomain(link) THEN st
                 ELSE IF MayEnqueue(link, st.seen, depth, pages)
                 THEN [added EXCEPT !.seen = @ \cup {link},
                                    !.q = Append(@, <<link, child_depth(depth)>>),
                                    !.enqueued = Append(@, <<link, child_depth(depth)>>)]
                 ELSE added
         IN for_links(Tail(links), url, depth, pages, after)

\* The collaborators answer the same for the same URL; an answer is drawn
\* when the URL is first asked about.  requests has no adapter for a scheme
\* other than http/https, so extract_links catches InvalidSchema there.
RobotsAnswers(url) == IF url \in DOMAIN robots THEN {robots[url]} ELSE BOOLEAN

FetchAnswers(url) ==
    IF url \in DOMAIN web THEN {web[url]}
    ELSE IF ~is_valid_scheme(url) THEN {Failure}
    ELSE {Failure} \cup {Page(h) : h \in LinkChoices}

\* One pass of the while body, lines 74-96.
Step ==
    /\ pc = "running"
    /\ LoopCond
    /\ LET url == popleft(q).item[1]
           depth == popleft(q).item[2]
       IN  /\ dequeued' = Append(dequeued, popleft(q).item)
           /\ IF depth > max_depth
              THEN /\ q' = popleft(q).rest
                   /\ UNCHANGED <<G, seen, pages_crawled, web, robots,
                                  robots_calls, fetched, enqueued, waits>>
              ELSE \E allowed \in RobotsAnswers(url) :
                   /\ robots' = (url :> allowed) @@ robots
                   /\ robots_calls' = robots_calls + 1
                   /\ IF ~allowed
                      THEN /\ q' = popleft(q).rest
                           /\ UNCHANGED <<G, seen, pages_crawled, web,
                                          fetched, enqueued, waits>>
                      ELSE \E answer \in FetchAnswers(url) :
                           \E links \in IterLinks(extract_links(url, answer)) :
                           LET st == for_links(links, url, depth, pages_crawled + 1,
                                        [G |-> add_node(G, url), seen |-> seen,
                                         q |-> popleft(q).rest, enqueued |-> enqueued])
                           IN  /\ web' = (url :> answer) @@ web
                               /\ fetched' = Append(fetched, <<url, depth>>)
                               /\ pages_crawled' = pages_crawled + 1
                               /\ G' = st.G
                               /\ seen' = st.seen
                               /\ q' = st.q
                               /\ enqueued' = st.enqueued
                               /\ waits' = sleep(waits)
    /\ UNCHANGED <<config, pc, stats, run, first, aside>>

\* line 97: return G
Return ==
    /\ pc = "running"
    /\ ~LoopCond
    /\ pc' = "returned"
    /\ UNCHANGED <<config, G, seen, q, pages_crawled, stats, web, robots,
                   history, run, first, aside>>

\* ------------------------------------------------------ the caller, app.py
\* line 28: stats = graph_stats(G); an exception leaves the handler.
GraphStats ==
    /\ pc = "returned"
    /\ stats' = graph_stats(G.nodes, G.edges)
    /\ pc' = IF stats'.outcome = "ok" THEN "stats" ELSE "failed"
    /\ UNCHANGED <<config, G, seen, q, pages_crawled, web, robots, history,
                   run, first, aside>>

\* lines 29-36: st.json(stats), then the warning or the pyvis rendering
Report ==
    /\ pc = "stats"
    /\ pc' = IF Cardinality(G.nodes) = 0 THEN "warned" ELSE "rendered"
    /\ UNCHANGED <<config, G, seen, q, pages_crawled, stats, web, robots,
                   history, run, first, aside>>

Next == Step \/ Return \/ GraphStats \/ Report

Spec == Init /\ [][Next]_vars

\* A second crawl of the same site with the same arguments: lines 64-71
\* again, the collaborators' answers kept.
Rerun ==
    /\ run = 1
    /\ pc \in {"failed", "warned", "rendered"}
    /\ run' = 2
    /\ first' = [G |-> G, stats |-> stats]
    /\ G' = EmptyGraph
    /\ seen' = {start_url}
    /\ q' = << <<start_url, 0>> >>
    /\ pages_crawled' = 0
    /\ pc' = "running"
    /\ stats' = NoStats
    /\ robots_calls' = 0
    /\ fetched' = <<>>
    /\ enqueued' = << <<start_url, 0>> >>
    /\ dequeued' = <<>>
    /\ waits' = 0
    /\ UNCHANGED <<config, web, robots, aside>>

NextDet == Next \/ Rerun

SpecDet == Init /\ [][NextDet]_vars

\* The loop is the only thread and every collaborator call returns (a
\* fetch has a timeout), so a pass that can be taken is taken.
FairSpec == Spec /\ WF_vars(Step) /\ WF_vars(Return)

\* KeyboardInterrupt reaches the main thread while the loop runs.  It is a
\* BaseException: no except clause of the module catches it, and
\* build_website_graph has no handler, so it leaves the function and the
\* caller gets no graph.
Interrupt ==
    /\ pc = "running"
    /\ pc' = "interrupted"
    /\ UNCHANGED <<config, G, seen, q, pages_crawled, stats, web, robots,
                   history, run, first, aside>>

NextInt == Next \/ Interrupt

SpecInt == Init /\ [][NextInt]_vars

\* graph_stats on any directed graph over ClassifyNodes, as a caller that
\* built the graph elsewhere would apply it.
ClassifyNodes == {A, B, C}

InitClassify ==
    /\ start_url = A
    /\ domain = A.netloc
    /\ max_pages = 1
    /\ max_depth = 0
    /\ same_domain = TRUE
    /\ \E N \in SUBSET ClassifyNodes : \E E \in SUBSET (N \X N) :
           G = [nodes |-> N, edges |-> E]
    /\ seen = {start_url}
    /\ q = <<>>
    /\ pages_crawled = 0
    /\ pc = "returned"
    /\ stats = NoStats
    /\ web = <<>>
    /\ robots = <<>>
    /\ robots_calls = 0
    /\ fetched = <<>>
    /\ enqueued = << <<start_url, 0>> >>
    /\ dequeued = <<>>
    /\ waits = 0
    /\ run = 1
    /\ first = NoResult
    /\ norm = NoNorm
    /\ pool = NoPool

NextClassify == GraphStats \/ Report

SpecClassify == InitClassify /\ [][NextClassify]_vars

\* ------------------------------------------ normalize_url on its own
\* The crawl, idle: the runs below leave it alone.
Idle ==
    /\ start_url = A
    /\ domain = A.netloc
    /\ max_pages = 1
    /\ max_depth = 0
    /\ same_domain = TRUE
    /\ G = EmptyGraph
    /\ seen = {start_url}
    /\ q = << <<start_url, 0>> >>
    /\ pages_crawled = 0
    /\ pc = "idle"
    /\ stats = NoStats
    /\ web = <<>>
    /\ robots = <<>>
    /\ robots_calls = 0
    /\ fetched = <<>>
    /\ enqueued = << <<start_url, 0>> >>
    /\ dequeued = <<>>
    /\ waits = 0
    /\ run = 1
    /\ first = NoResult

\* http/https URLs with and without fragment, ending in 0..MaxSlashes slashes.
NormInputs ==
    {[scheme |-> s, netloc |-> "site.test", path |-> p, slashes |-> n, fragment |-> f] :
        s \in {"http", "https"}, p \in {"", "/a", "/a/b"},
        n \in 0..MaxSlashes, f \in {"", "top"}}

NormBases == {A, BFrag}

\* The two uses of normalize_url: on the seed (line 64, the seed is the base
\* and the reference is empty) and on an href of a page (line 43).
Normalized(mode, base, u) ==
    IF mode = "seed" THEN normalize_url(u, EmptyHref) ELSE normalize_url(base, u)

InitNorm ==
    /\ Idle
    /\ pool = NoPool
    /\ \E u \in NormInputs :
           \/ norm = [NoNorm EXCEPT !.pc = "input", !.mode = "seed", !.u = u]
           \/ \E b \in NormBases :
                  norm = [NoNorm EXCEPT !.pc = "input", !.mode = "link", !.base = b, !.u = u]

NormalizeOnce ==
    /\ norm.pc = "input"
    /\ norm' = [norm EXCEPT !.pc = "once", !.once = Normalized(norm.mode, norm.base, norm.u)]
    /\ UNCHANGED <<config, G, seen, q, pages_crawled, pc, stats, web, robots,
                   history, run, first, pool>>

NormalizeTwice ==
    /\ norm.pc = "once"
    /\ norm' = [norm EXCEPT !.pc = "twice",
                            !.twice = Normalized(norm.mode, norm.base, norm.once)]
    /\ UNCHANGED <<config, G, seen, q, pages_crawled, pc, stats, web, robots,
                   history, run, first, pool>>

NextNorm == NormalizeOnce \/ NormalizeTwice

SpecNorm == InitNorm /\ [][NextNorm]_vars

\* ------------------------------------------------------------ web_diver.py
\* build_website_graph(start_url, max_depth=2, link_limit=100, max_workers=5)
PoolMaxDepth == 2
PoolLinkLimit == 100
PoolMaxWorkers == 5

\* What web_diver.extract_links may return for a page: the hrefs joined to
\* the page's URL, not normalized, repeated as the page repeats them.
PoolLinkChoices == { <<>>, <<B>>, <<B, B>>, <<B, C>>, <<A, C>> }

Frame(url, depth, count) ==
    [url |-> url, depth |-> depth, count |-> count, phase |-> "enter", mine |-> {}]

Future(link) == [link |-> link, state |-> "queued", content |-> FALSE]

Top == pool.stack[Len(pool.stack)]
Popped == SubSeq(pool.stack, 1, Len(pool.stack) - 1)
WithTop(f) == [pool.stack EXCEPT ![Len(pool.stack)] = f]

\* line 39: one executor.submit per listed link that is not in visited
RECURSIVE submit_all(_, _, _)
submit_all(links, vis, futs) ==
    IF links = <<>> THEN futs
    ELSE submit_all(Tail(links), vis,
                    IF Head(links) \notin vis THEN Append(futs, Future(Head(links)))
                    ELSE futs)

\* lines 48-53: the executor is created and the first call is made
InitPool ==
    /\ Idle
    /\ norm = NoNorm
    /\ pool = [status |-> "running", visited |-> {}, graph |-> {},
               stack |-> <<Frame(A, 0, 0)>>, futures |-> <<>>]

\* lines 34-39: entry of build_website_graph_dfs, up to the submissions
PoolCall ==
    /\ pool.status = "running"
    /\ pool.stack # <<>>
    /\ Top.phase = "enter"
    /\ IF Top.url \in pool.visited \/ Top.depth > PoolMaxDepth
           \/ Top.count >= PoolLinkLimit
       THEN pool' = [pool EXCEPT !.stack = Popped]
       ELSE \E links \in PoolLinkChoices :
            LET vis == pool.visited \cup {Top.url}
                futs == submit_all(links, vis, pool.futures)
            IN pool' = [pool EXCEPT
                   !.visited = vis,
                   !.futures = futs,
                   !.stack = WithTop([Top EXCEPT
                                 !.phase = "collect",
                                 !.count = @ + Len(links),
                                 !.mine = (Len(pool.futures) + 1)..Len(futs)])]
    /\ UNCHANGED <<config, G, seen, q, pages_crawled, pc, stats, web, robots,
                   history, run, first, norm>>

Running == {i \in 1..Len(pool.futures) : pool.futures[i].state = "running"}
Queued == {i \in 1..Len(pool.futures) : pool.futures[i].state = "queued"}

\* A worker thread takes the oldest queued call of fetch_url.
PoolWorkerStart ==
    /\ pool.status = "running"
    /\ Queued # {}
    /\ Cardinality(Running) < PoolMaxWorkers
    /\ LET i == CHOOSE k \in Queued : \A j \in Queued : k <= j
       IN pool' = [pool EXCEPT !.futures[i].state = "running"]
    /\ UNCHANGED <<config, G, seen, q, pages_crawled, pc, stats, web, robots,
                   history, run, first, norm>>

\* lines 23-31: fetch_url returns (url, text) or (url, None)
PoolWorkerFinish ==
    /\ pool.status = "running"
    /\ \E i \in Running : \E content \in BOOLEAN :
           pool' = [pool EXCEPT !.futures[i].state = "done",
                                !.futures[i].content = content]
    /\ UNCHANGED <<config, G, seen, q, pages_crawled, pc, stats, web, robots,
                   history, run, first, norm>>

\* lines 41-46: as_completed yields a finished future of this call
PoolCollect ==
    /\ pool.status = "running"
    /\ pool.stack # <<>>
    /\ Top.phase = "collect"
    /\ \E i \in Top.mine :
           /\ pool.futures[i].state = "done"
           /\ LET link == pool.futures[i].link
                  rest == WithTop([Top EXCEPT !.mine = @ \ {i}])
              IN IF pool.futures[i].content
                 THEN pool' = [pool EXCEPT
                          !.graph = @ \cup {{Top.url, link}},
                          !.stack = Append(rest, Frame(link, Top.depth + 1, Top.count))]
                 ELSE pool' = [pool EXCEPT !.stack = rest]
    /\ UNCHANGED <<config, G, seen, q, pages_crawled, pc, stats, web, robots,
                   history, run, first, norm>>

\* The loop over as_completed is exhausted: the call returns; the return of
\* the first call ends the with block (lines 52-57).
PoolReturn ==
    /\ pool.status = "running"
    /\ pool.stack # <<>>
    /\ Top.phase = "collect"
    /\ Top.mine = {}
    /\ pool' = [pool EXCEPT !.stack = Popped,
                            !.status = IF Len(pool.stack) = 1 THEN "done" ELSE @]
    /\ UNCHANGED <<config, G, seen, q, pages_crawled, pc, stats, web, robots,
                   history, run, first, norm>>

NextPool ==
    PoolCall \/ PoolWorkerStart \/ PoolWorkerFinish \/ PoolCollect \/ PoolReturn

SpecPool == InitPool /\ [][NextPool]_vars

\* ---------------------------------------------------------------- claims
FetchedURLs == {fetched[i][1] : i \in 1..Len(fetched)}
EnqueuedURLs == {enqueued[i][1] : i \in 1..Len(enqueued)}
Finished == pc # "running"

\* C1 (as stated): the returned graph has at most max_pages nodes.
C1_BudgetRespected == Finished => Cardinality(G.nodes) <= max_pages

\* C1 (amended): of the nodes of the returned graph, at most max_pages are
\* pages the crawl fetched; the other nodes are targets of recorded links
\* that were never fetched, and max_pages does not bound their number.
C1_FetchedNodesWithinBudget ==
    Finished => Cardinality(G.nodes \cap FetchedURLs) <= max_pages

C1_Witness ==
    /\ pc = "returned"
    /\ Cardinality(G.nodes \cap FetchedURLs) = max_pages
    /\ Cardinality(G.nodes) > max_pages

\* C2: no entry deeper than max_depth is fetched, and no entry deeper than
\* max_depth is ever put in the queue.
C2_DepthRespected ==
    /\ \A i \in 1..Len(fetched) : fetched[i][2] <= max_depth
    /\ \A i \in 1..Len(enqueued) : enqueued[i][2] <= max_depth

\* A page fetched at depth max_depth whose accepted, unseen link was left
\* out of the queue although the page budget still had room.
C2_Witness ==
    \E i \in 1..Len(fetched) :
        /\ fetched[i][2] = max_depth
        /\ pages_crawled < max_pages
        /\ \E e \in G.edges : e[1] = fetched[i][1] /\ e[2] \notin seen

\* C3: a URL is put in the queue at most once in a crawl, the seed first,
\* and every URL that was put in the queue is in the seen set.
C3_NoDuplicateEnqueue ==
    /\ enqueued[1] = <<start_url, 0>>
    /\ \A i, j \in 1..Len(enqueued) : i # j => enqueued[i][1] # enqueued[j][1]
    /\ EnqueuedURLs \subseteq seen

\* An enqueued URL that two pages link to, one of them twice.
C3_Witness ==
    \E t \in EnqueuedURLs \ {start_url} :
        /\ Cardinality({e \in G.edges : e[2] = t}) >= 2
        /\ \E u \in DOMAIN web :
               LET links == extract_links(u, web[u])
               IN \E i, j \in 1..Len(links) : i # j /\ links[i] = t /\ links[j] = t

\* C4: with same_domain set, no edge points to, and no queue entry ever
\* names, a URL on another host than the seed's.
C4_SameDomainFilter ==
    same_domain =>
        /\ \A e \in G.edges : e[2].netloc = domain
        /\ \A u \in EnqueuedURLs : u.netloc = domain

\* A fetched page that links to the other host and to B: B's edge is there.
C4_Witness ==
    /\ same_domain
    /\ \E u \in DOMAIN web :
           /\ X \in Range(extract_links(u, web[u]))
           /\ <<u, B>> \in G.edges

\* C5: a second crawl with the same seed, budget and collaborator answers
\* ends with the same nodes, the same edges and the same graph_stats
\* outcome (classification label included).
C5_Determinism ==
    (run = 2 /\ pc \in {"failed", "warned", "rendered"}) =>
        (G = first.G /\ stats = first.stats)

C5_Witness ==
    /\ run = 2
    /\ pc = "rendered"
    /\ Cardinality(G.nodes) >= 3
    /\ Len(fetched) >= 2

\* C6: graph_stats on a graph without nodes returns nodes = 0, edges = 0
\* and average_degree = 0, and does not raise.
C6_ZeroDivisionSafety ==
    (pc \in {"stats", "failed", "warned", "rendered"} /\ G.nodes = {}) =>
        /\ stats.outcome = "ok"
        /\ stats.nodes = 0
        /\ stats.edges = 0
        /\ stats.average_degree = <<0, 1>>

\* C7: a seed whose scheme is not http or https ends the crawl in an error
\* before any robots lookup or fetch, and no node is added.
C7_InvalidSeedFailsFast ==
    ~is_valid_scheme(start_url) =>
        /\ robots_calls = 0
        /\ fetched = <<>>
        /\ G.nodes = {}
        /\ pc \in {"running", "failed"}

\* C8: the crawl loop ends and returns the graph, and once it has ended the
\* queue is empty or pages_crawled equals max_pages.
C8_Termination ==
    /\ <>(pc = "returned")
    /\ [](Finished => (q = <<>> \/ pages_crawled = max_pages))

\* The budget stopped the loop with entries still queued.
C8_Witness == pc = "returned" /\ q # <<>> /\ pages_crawled = max_pages

\* C9: classify_graph returns the one label of the decision procedure and
\* never raises.
StronglyConnected(N, E) == \A u, v \in N : v \in Reachable(E, {u})
WeaklyConnected(N, E) == \A u, v \in N : v \in Reachable(Undirected(E), {u})

ExpectedLabel(N, E) ==
    IF N = {} THEN "Empty Graph"
    ELSE IF StronglyConnected(N, E) THEN "Strongly Connected Directed Graph"
    ELSE IF WeaklyConnected(N, E) THEN "Weakly Connected Directed Graph"
    ELSE "Disconnected Directed Graph"

C9_ClassifierDecisionProcedure ==
    pc \in {"stats", "failed", "warned", "rendered"} =>
        /\ stats.outcome = "ok"
        /\ stats.classification = ExpectedLabel(G.nodes, G.edges)

\* C10: a pass for a URL robots disallows changes neither the graph nor
\* pages_crawled nor the seen set and fetches nothing; a crawl whose seed is
\* disallowed ends with no node and the caller gets stats and the warning,
\* not a failure.
SeedDisallowed == start_url \in DOMAIN robots /\ ~robots[start_url]

C10_RobotsBlock ==
    /\ [][(pc = "running" /\ robots_calls' = robots_calls + 1
              /\ ~robots'[Head(q)[1]])
            => UNCHANGED <<G, pages_crawled, seen, fetched>>]_vars
    /\ [](SeedDisallowed => (G.nodes = {} /\ pc # "failed"))
    /\ []((SeedDisallowed /\ pc \notin {"running", "returned", "failed"})
            => (stats.outcome = "ok" /\ pc \in {"stats", "warned"}))

\* C11: an interrupt that arrives while the loop runs makes the crawl stop
\* and return the graph built so far; it never ends in an error outcome.
C11_Cancellation == pc # "interrupted"

\* C12: normalizing the result of normalize_url again gives the same URL.
C12_NormalizationIdempotent == norm.pc = "twice" => norm.twice = norm.once

\* A URL with a fragment and several trailing slashes, changed by the first
\* normalization.
C12_Witness ==
    /\ norm.pc = "twice"
    /\ norm.mode = "link"
    /\ norm.u.slashes >= 2
    /\ norm.u.fragment # ""
    /\ norm.once # norm.u

\* C13: entries leave the queue in the order they entered it, so the depths
\* of the entries taken from the queue never decrease.
C13_BreadthFirstOrder ==
    /\ Len(dequeued) <= Len(enqueued)
    /\ \A i \in 1..Len(dequeued) : dequeued[i] = enqueued[i]
    /\ \A i, j \in 1..Len(dequeued) : i < j => dequeued[i][2] <= dequeued[j][2]

\* Two entries of depth 1 were taken before the first entry of depth 2.
C13_Witness ==
    /\ Len(dequeued) >= 4
    /\ dequeued[2][2] = 1
    /\ dequeued[3][2] = 1
    /\ dequeued[4][2] = 2

\* C14 (as stated): the pause is taken once for every entry taken from the
\* queue, also for an entry that is discarded or that robots disallows.
C14_WaitPerDequeuedEntry == waits = Len(dequeued)

\* C14 (amended): the pause is taken exactly once for every dequeued entry
\* that is fetched, after its links were processed; an entry that robots
\* disallows (or that is discarded for depth) is followed by no pause.
AllowedDequeues ==
    {i \in 1..Len(dequeued) :
        dequeued[i][2] <= max_depth /\ robots[dequeued[i][1]]}

C14_WaitPerFetchedEntry ==
    /\ waits = Cardinality(AllowedDequeues)
    /\ waits = Len(fetched)

\* A disallowed entry and a fetched one have both been taken.
C14_Witness == waits >= 1 /\ Len(dequeued) > waits

\* C15 (as stated): when the crawl returns, every entry that was put in the
\* queue has been taken from it and processed, once.
C15_EveryEntryProcessed == Finished => dequeued = enqueued

\* C15 (amended): every entry put in the queue is taken from it at most
\* once; the entries never taken are those still in the queue, and the
\* crawl returns with entries still in the queue only when pages_crawled
\* has reached max_pages.
C15_FrontierLifecycle ==
    /\ enqueued = dequeued \o q
    /\ \A i, j \in 1..Len(dequeued) : i # j => dequeued[i] # dequeued[j]
    /\ (Finished /\ q # <<>>) => pages_crawled = max_pages

\* The crawl returned after several passes and left entries unprocessed.
C15_Witness ==
    /\ pc = "returned"
    /\ Len(dequeued) >= 2
    /\ Len(q) >= 2

\* C16: when the fetch of an allowed, in-depth entry fails, the pass adds
\* the URL as a node, counts one page, adds no edge and no queue entry, and
\* the loop goes on; the failed page never has an outgoing edge.
FailedFetchPass ==
    /\ pc = "running"
    /\ Len(fetched') = Len(fetched) + 1
    /\ ~web'[Head(q)[1]].ok

C16_FailSoftFetch ==
    /\ [](\A i \in 1..Len(fetched) :
            ~web[fetched[i][1]].ok =>
                /\ fetched[i][1] \in G.nodes
                /\ \A e \in G.edges : e[1] # fetched[i][1])
    /\ [][FailedFetchPass =>
            /\ G'.nodes = G.nodes \cup {Head(q)[1]}
            /\ G'.edges = G.edges
            /\ pages_crawled' = pages_crawled + 1
            /\ q' = Tail(q)
            /\ enqueued' = enqueued
            /\ pc' = "running"]_vars

\* A page whose fetch failed, and a page fetched after it.
C16_Witness ==
    \E i \in 1..Len(fetched) : i < Len(fetched) /\ ~web[fetched[i][1]].ok

\* C17: both ends of every edge are nodes and its source was fetched; every
\* accepted link of a fetched page is an edge, whether or not its target
\* was enqueued; the chain A->B->C->D crawled with max_depth = 1 ends with
\* the edges A->B and B->C, C without outgoing edge and D not a node.
AcceptedLinks(u) ==
    {l \in Range(extract_links(u, web[u])) : is_valid_scheme(l) /\ ~OffDomain(l)}

ChainCrawled ==
    /\ start_url = A
    /\ max_depth = 1
    /\ A \in DOMAIN web /\ web[A] = Page(<<B>>)
    /\ B \in DOMAIN web /\ web[B] = Page(<<C>>)

C17_EdgesAndUnfetchedLeaves ==
    /\ \A e \in G.edges :
           e[1] \in G.nodes /\ e[2] \in G.nodes /\ e[1] \in FetchedURLs
    /\ \A u \in FetchedURLs : \A l \in AcceptedLinks(u) : <<u, l>> \in G.edges
    /\ (Finished /\ ChainCrawled) =>
           /\ G.edges = {<<A, B>>, <<B, C>>}
           /\ G.nodes = {A, B, C}
           /\ C \notin FetchedURLs

\* The chain was crawled to its end: C is a node that was never enqueued.
C17_Witness ==
    /\ pc = "returned"
    /\ ChainCrawled
    /\ <<B, C>> \in G.edges
    /\ C \notin seen

\* C18: the seed enters the queue with depth 0, and the depth recorded for
\* every fetched URL is the length of a shortest directed path from the
\* seed to it in the final graph.
RECURSIVE Distance(_, _, _, _)
Distance(E, S, t, d) ==
    IF t \in S THEN d
    ELSE LET T == S \cup Successors(E, S)
         IN IF T = S THEN -1 ELSE Distance(E, T, t, d + 1)

C18_DepthIsBfsDistance ==
    /\ enqueued[1] = <<start_url, 0>>
    /\ Finished =>
           \A i \in 1..Len(fetched) :
               fetched[i][2] = Distance(G.edges, {start_url}, fetched[i][1], 0)

\* A page fetched at depth 2 that two pages link to.
C18_Witness ==
    /\ Finished
    /\ \E i \in 1..Len(fetched) :
           /\ fetched[i][2] = 2
           /\ Cardinality({e \in G.edges : e[2] = fetched[i][1]}) >= 2

\* C19: pages_crawled never exceeds max_pages, it equals the number of
\* fetches made, and once it has reached max_pages no fetch is made, even
\* with entries left in the queue.
C19_PageBudgetOnFetches ==
    /\ [](pages_crawled <= max_pages /\ Len(fetched) = pages_crawled)
    /\ [][pages_crawled = max_pages => fetched' = fetched]_vars

\* The budget of at least two pages was used up and the queue is not empty.
C19_Witness ==
    /\ max_pages >= 2
    /\ pages_crawled = max_pages
    /\ Len(fetched) = max_pages
    /\ q # <<>>

\* C20: in the worker-pool crawler no URL is submitted to the pool more
\* than once in a crawl.
C20_NoDuplicateSubmission ==
    \A i, j \in 1..Len(pool.futures) :
        i # j => pool.futures[i].link # pool.futures[j].link

====
